---- MODULE Spec2Model ----
(***************************************************************************)
(* Model of the BSS bridge server command queue (src/lib/queue.js) and of  *)
(* the HTTP handlers that call it.                                         *)
(*                                                                         *)
(* The engine is the singleton CommandQueue: an insertion-ordered Map of   *)
(* pending commands and a Map of per-player cooldown timestamps.  Node     *)
(* runs every handler and the setInterval callback to completion on one    *)
(* event loop, so each is one action.  Date.now() is the variable now.     *)
(* Spec is the server answering one request at a time; SpecConc has        *)
(* requests in the server together, handled one after the other in any     *)
(* order.                                                                  *)
(* The message strings of the results are left out: no code reads them.    *)
(***************************************************************************)
EXTENDS Integers, Sequences, FiniteSets, Bags, TLC

\* ---------------------------------------------------------------- bounds
\* Date.now() runs from 1 to MaxTime.
MaxTime == 5
\* crypto.randomUUID() is drawn at most MaxIds times.
MaxIds == 3
\* this.config (queue.js:22-27), read from the environment; small values.
maxQueueSize == 2
commandExpirationMs == 3
duplicateCooldownMs == 2
\* Date.now() runs from 1 to MaxHttpTime while requests come in over HTTP.
MaxHttpTime == 3

\* SpecLive: the last clock value a command is submitted at.
MaxLiveTime == 2
\* Requests in the server together: at most MaxBatch submits, or Copies
\* completions of each pending id.
MaxBatch == 2
Copies == 2

Players == {"Alice", "Bob"}
\* The request bodies submitted.  type and timestamp are stored and handed
\* back by poll, and read nowhere in the engine: each player sends one kind.
Requests == {[type |-> "kick", player |-> "Alice", timestamp |-> 1000],
             [type |-> "ban", player |-> "Bob", timestamp |-> 2000]}

VARIABLES
    commands,         \* this.commands: Map in insertion order, as a sequence
    playerCooldowns,  \* this.playerCooldowns: Map player -> timestamp
    now,              \* Date.now()
    nextId,           \* number of ids generateCommandId has handed out, plus 1
    res,              \* the last call: what it returned, the ids its sweep
                      \* removed, whether it repeats the call before it, the
                      \* player of the command a complete call removed and
                      \* whether that call reported success=true, what a
                      \* submit came right after
    lastAccepted,     \* history: per player, the time and id of the last
                      \* accepted command ([at |-> 0, id |-> 0] when none)
    unblocked,        \* history: players with a success=true completion or a
                      \* clear since their last accepted command
    freed,            \* history: a complete call or a sweep took a command
                      \* out of a full store and no submit was made since
    inflight,         \* SpecConc: the bag of requests received and not handled
    answers,          \* SpecConc: the bag of responses to the handled ones
    batch,            \* SpecConc: the bag of requests that arrived together
    before,           \* SpecConc: the store size and the players with a
                      \* cooldown entry when they arrived
    phase,            \* SpecConc: what the client is doing; SpecHttp: idle,
                      \* or answered while the response is on its way
    drained,          \* SpecConc: the ids its polls returned after the batch
    polled,           \* history: the command the last poll returned, while no
                      \* complete call has followed it; cleared: a clear has
    API_KEY,           \* process.env.API_KEY, read when lib/auth.js is loaded
    http,             \* the last HTTP exchange or middleware call: what was
                      \* asked, what the authentication gate decided, whether
                      \* the engine was called, what was answered
    shadow            \* SpecGC: the store, the cooldown entries and the last
                      \* result of an engine given the same calls at the same
                      \* times whose sweep leaves stale cooldown entries in

\* The requests in the server together and the client that sent them.
concVars == <<inflight, answers, batch, before, phase, drained>>

\* The HTTP layer.
httpVars == <<API_KEY, http>>

vars == <<commands, playerCooldowns, now, nextId, res, lastAccepted, unblocked,
          freed, polled, inflight, answers, batch, before, phase, drained,
          API_KEY, http, shadow>>

\* ------------------------------------------------------------- Map helpers
MapDelete(m, ks) == [k \in (DOMAIN m) \ ks |-> m[k]]

\* Mutant: the write is lost.
MapPut_lost(m, k, v) == m

MapPut(m, k, v) == [q \in (DOMAIN m) \cup {k} |-> IF q = k THEN v ELSE m[q]]

IdsOf(cmds) == {cmds[i].id : i \in DOMAIN cmds}

PlayersOf(cmds) == {cmds[i].player : i \in DOMAIN cmds}

\* Mutant: a new key goes first.
CommandsSet_front(cmds, id, command) ==
    IF id \in IdsOf(cmds)
    THEN [i \in DOMAIN cmds |-> IF cmds[i].id = id THEN command ELSE cmds[i]]
    ELSE <<command>> \o cmds

\* Map.prototype.set: a new key goes last, an existing key keeps its place.
CommandsSet(cmds, id, command) ==
    IF id \in IdsOf(cmds)
    THEN [i \in DOMAIN cmds |-> IF cmds[i].id = id THEN command ELSE cmds[i]]
    ELSE Append(cmds, command)

\* Mutant: delete empties the Map.
CommandsDelete_all(cmds, id) == <<>>

\* Mutant: delete removes nothing.
CommandsDelete_none(cmds, id) == cmds

\* Map.prototype.delete on this.commands.
CommandsDelete(cmds, id) == SelectSeq(cmds, LAMBDA c : c.id # id)

\* Map.prototype.get on this.commands (only used when id is present).
CommandsGet(cmds, id) == cmds[CHOOSE i \in DOMAIN cmds : cmds[i].id = id]

\* ------------------------------------------------------------ the engine
\* Mutant: any cooldown entry blocks, whatever its age.
isDuplicateCommand_anyEntry(cds, player, t) == player \in DOMAIN cds

\* isDuplicateCommand(player, now): !lastCommandTime also covers a stored 0.
isDuplicateCommand(cds, player, t) ==
    IF player \notin DOMAIN cds \/ cds[player] = 0
    THEN FALSE
    ELSE (t - cds[player]) < duplicateCooldownMs

\* Mutant: the id is the position in the queue, so ids come back.
generateCommandId_position == Len(commands) + 1

\* generateCommandId(): crypto.randomUUID(), modelled as a value never
\* returned before.
generateCommandId == nextId

\* Mutant: no command is ever taken for expired.
IsExpired_never(c, t) == FALSE

\* Mutant: the age is compared with nothing, createdAt taken for expiresAt.
IsExpired_createdAt(c, t) == t > c.createdAt

\* The test of the first loop of cleanupExpiredCommands.
IsExpired(c, t) == t > c.expiresAt

\* Mutant: every cooldown entry is taken for stale.
IsStaleCooldown_always(ts, t) == TRUE

\* Mutant: no cooldown entry is ever taken for stale.
IsStaleCooldown_never(ts, t) == FALSE

\* The test of the second loop of cleanupExpiredCommands.
IsStaleCooldown(ts, t) == (t - ts) > duplicateCooldownMs

\* Mutant: the first loop leaves the cooldown table alone.
cleanupExpiredCommands_keepsCooldown(cmds, cds, t) ==
    LET kept == SelectSeq(cmds, LAMBDA c : ~IsExpired(c, t))
        stale == {p \in DOMAIN cds :
                    IsStaleCooldown(cds[p], t) /\ p \notin PlayersOf(kept)}
    IN  [commands |-> kept, playerCooldowns |-> MapDelete(cds, stale)]

\* cleanupExpiredCommands(): both loops, at one reading t of the clock.
cleanupExpiredCommands(cmds, cds, t) ==
    LET kept == SelectSeq(cmds, LAMBDA c : ~IsExpired(c, t))
        expired == {cmds[i].player : i \in {j \in DOMAIN cmds : IsExpired(cmds[j], t)}}
        cds1 == MapDelete(cds, expired)
        stale == {p \in DOMAIN cds1 :
                    IsStaleCooldown(cds1[p], t) /\ p \notin PlayersOf(kept)}
    IN  [commands |-> kept, playerCooldowns |-> MapDelete(cds1, stale)]

\* cleanupExpiredCommands() without its second loop: expired commands and
\* their players' cooldown entries go, stale cooldown entries stay.
cleanupKeepingStale(cmds, cds, t) ==
    LET remaining == SelectSeq(cmds, LAMBDA c : ~IsExpired(c, t))
        expired == {cmds[i].player : i \in {j \in DOMAIN cmds : IsExpired(cmds[j], t)}}
    IN  [commands |-> remaining, playerCooldowns |-> MapDelete(cds, expired)]

\* Mutant: > for >=.
IsQueueFull_gt(cmds) == Len(cmds) > maxQueueSize

\* Mutant: the store is taken for full one command early.
IsQueueFull_early(cmds) == Len(cmds) >= maxQueueSize - 1

\* The capacity test of addCommand.
IsQueueFull(cmds) == Len(cmds) >= maxQueueSize

\* Mutant: a rejected duplicate restarts the player's cooldown window.
addCommand_restarts(cmds, cds, type, player, timestamp, t, id) ==
    IF isDuplicateCommand(cds, player, t)
    THEN [commands |-> cmds, playerCooldowns |-> MapPut(cds, player, t),
          result |-> [success |-> FALSE, error |-> "DUPLICATE_COMMAND"]]
    ELSE IF IsQueueFull(cmds)
    THEN [commands |-> cmds, playerCooldowns |-> cds,
          result |-> [success |-> FALSE, error |-> "QUEUE_FULL"]]
    ELSE LET cmds1 == CommandsSet(cmds, id,
                          [id |-> id, type |-> type, player |-> player,
                           timestamp |-> timestamp, attempts |-> 0,
                           createdAt |-> t,
                           expiresAt |-> t + commandExpirationMs])
         IN  [commands |-> cmds1,
              playerCooldowns |-> MapPut(cds, player, t),
              result |-> [success |-> TRUE, commandId |-> id,
                          queuePosition |-> Len(cmds1)]]

\* Mutant: the position returned is the store size before the insertion.
addCommand_zeroBased(cmds, cds, type, player, timestamp, t, id) ==
    IF isDuplicateCommand(cds, player, t)
    THEN [commands |-> cmds, playerCooldowns |-> cds,
          result |-> [success |-> FALSE, error |-> "DUPLICATE_COMMAND"]]
    ELSE IF IsQueueFull(cmds)
    THEN [commands |-> cmds, playerCooldowns |-> cds,
          result |-> [success |-> FALSE, error |-> "QUEUE_FULL"]]
    ELSE [commands |->
              CommandsSet(cmds, id,
                          [id |-> id, type |-> type, player |-> player,
                           timestamp |-> timestamp, attempts |-> 0,
                           createdAt |-> t,
                           expiresAt |-> t + commandExpirationMs]),
          playerCooldowns |-> MapPut(cds, player, t),
          result |-> [success |-> TRUE, commandId |-> id,
                      queuePosition |-> Len(cmds)]]

\* Mutant: the capacity check comes before the duplicate check.
addCommand_capacityFirst(cmds, cds, type, player, timestamp, t, id) ==
    IF IsQueueFull(cmds)
    THEN [commands |-> cmds, playerCooldowns |-> cds,
          result |-> [success |-> FALSE, error |-> "QUEUE_FULL"]]
    ELSE IF isDuplicateCommand(cds, player, t)
    THEN [commands |-> cmds, playerCooldowns |-> cds,
          result |-> [success |-> FALSE, error |-> "DUPLICATE_COMMAND"]]
    ELSE [commands |->
              CommandsSet(cmds, id,
                          [id |-> id, type |-> type, player |-> player,
                           timestamp |-> timestamp, attempts |-> 0,
                           createdAt |-> t,
                           expiresAt |-> t + commandExpirationMs]),
          playerCooldowns |-> MapPut(cds, player, t),
          result |-> [success |-> TRUE, commandId |-> id,
                      queuePosition |-> Len(cmds) + 1]]

\* addCommand(type, player, timestamp) at clock reading t; id is the value
\* generateCommandId returns if it is called.
addCommand(cmds, cds, type, player, timestamp, t, id) ==
    IF isDuplicateCommand(cds, player, t)
    THEN [commands |-> cmds, playerCooldowns |-> cds,
          result |-> [success |-> FALSE, error |-> "DUPLICATE_COMMAND"]]
    ELSE IF IsQueueFull(cmds)
    THEN [commands |-> cmds, playerCooldowns |-> cds,
          result |-> [success |-> FALSE, error |-> "QUEUE_FULL"]]
    ELSE LET command == [id |-> id, type |-> type, player |-> player,
                         timestamp |-> timestamp, attempts |-> 0,
                         createdAt |-> t,
                         expiresAt |-> t + commandExpirationMs]
             cmds1 == CommandsSet(cmds, id, command)
         IN  [commands |-> cmds1,
              playerCooldowns |-> MapPut(cds, player, t),
              result |-> [success |-> TRUE, commandId |-> id,
                          queuePosition |-> Len(cmds1)]]

\* The snapshot pollCommand returns of command c.
PollSnapshot(c) ==
    [hasCommand |-> TRUE,
     command |-> [id |-> c.id, type |-> c.type, player |-> c.player,
                  timestamp |-> c.timestamp, attempts |-> c.attempts]]

\* Mutant: no sweep before the read.
pollCommand_nosweep(cmds, cds, t) ==
    [commands |-> cmds, playerCooldowns |-> cds,
     result |-> IF Len(cmds) = 0 THEN [hasCommand |-> FALSE]
                ELSE PollSnapshot(Head(cmds))]

\* Mutant: the newest command (last in insertion order) for the oldest.
pollCommand_newest(cmds, cds, t) ==
    LET swept == cleanupExpiredCommands(cmds, cds, t)
    IN  [commands |-> swept.commands, playerCooldowns |-> swept.playerCooldowns,
         result |-> IF Len(swept.commands) = 0 THEN [hasCommand |-> FALSE]
                    ELSE PollSnapshot(swept.commands[Len(swept.commands)])]

\* Mutant: the command returned is taken out of the store.
pollCommand_shift(cmds, cds, t) ==
    LET swept == cleanupExpiredCommands(cmds, cds, t)
    IN  [commands |-> IF Len(swept.commands) = 0 THEN swept.commands
                      ELSE Tail(swept.commands),
         playerCooldowns |-> swept.playerCooldowns,
         result |-> IF Len(swept.commands) = 0 THEN [hasCommand |-> FALSE]
                    ELSE PollSnapshot(Head(swept.commands))]

\* Mutant: each poll counts an attempt on the command it returns.
pollCommand_countsAttempts(cmds, cds, t) ==
    LET swept == cleanupExpiredCommands(cmds, cds, t)
        counted == [swept.commands EXCEPT ![1].attempts = @ + 1]
    IN  IF Len(swept.commands) = 0
        THEN [commands |-> swept.commands,
              playerCooldowns |-> swept.playerCooldowns,
              result |-> [hasCommand |-> FALSE]]
        ELSE [commands |-> counted,
              playerCooldowns |-> swept.playerCooldowns,
              result |-> PollSnapshot(Head(counted))]

\* pollCommand(): sweep, then the first command in insertion order.
pollCommand(cmds, cds, t) ==
    LET swept == cleanupExpiredCommands(cmds, cds, t)
    IN  [commands |-> swept.commands, playerCooldowns |-> swept.playerCooldowns,
         result |->
            IF Len(swept.commands) = 0
            THEN [hasCommand |-> FALSE]
            ELSE LET oldestCommand == Head(swept.commands)
                 IN  PollSnapshot(oldestCommand)]

\* Mutant: complete sweeps first, as poll and status do.
completeCommand_sweeps(cmds, cds, commandId, success) ==
    LET swept == cleanupExpiredCommands(cmds, cds, now)
    IN  IF commandId \notin IdsOf(swept.commands)
        THEN [commands |-> swept.commands,
              playerCooldowns |-> swept.playerCooldowns,
              result |-> [success |-> FALSE, error |-> "COMMAND_NOT_FOUND"]]
        ELSE [commands |-> CommandsDelete(swept.commands, commandId),
              playerCooldowns |->
                  IF success
                  THEN MapDelete(swept.playerCooldowns,
                                 {CommandsGet(swept.commands, commandId).player})
                  ELSE swept.playerCooldowns,
              result |-> [success |-> TRUE, removed |-> TRUE,
                          commandId |-> commandId]]

\* Mutant: the cooldown entry survives every completion.
completeCommand_keepsCooldown(cmds, cds, commandId, success) ==
    IF commandId \notin IdsOf(cmds)
    THEN [commands |-> cmds, playerCooldowns |-> cds,
          result |-> [success |-> FALSE, error |-> "COMMAND_NOT_FOUND"]]
    ELSE [commands |-> CommandsDelete(cmds, commandId),
          playerCooldowns |-> cds,
          result |-> [success |-> TRUE, removed |-> TRUE,
                      commandId |-> commandId]]

\* completeCommand(commandId, success): the error argument is never read.
completeCommand(cmds, cds, commandId, success) ==
    IF commandId \notin IdsOf(cmds)
    THEN [commands |-> cmds, playerCooldowns |-> cds,
          result |-> [success |-> FALSE, error |-> "COMMAND_NOT_FOUND"]]
    ELSE LET command == CommandsGet(cmds, commandId)
         IN  [commands |-> CommandsDelete(cmds, commandId),
              playerCooldowns |->
                  IF success THEN MapDelete(cds, {command.player}) ELSE cds,
              result |-> [success |-> TRUE, removed |-> TRUE,
                          commandId |-> commandId]]

\* Mutant: the age of the newest command.
getOldestCommandAge_newest(cmds, t) ==
    IF Len(cmds) = 0 THEN 0 ELSE t - cmds[Len(cmds)].createdAt

\* Mutant: the age is counted from expiresAt.
getOldestCommandAge_fromExpiresAt(cmds, t) ==
    IF Len(cmds) = 0 THEN 0 ELSE t - Head(cmds).expiresAt

\* getOldestCommandAge() at clock reading t.
getOldestCommandAge(cmds, t) ==
    IF Len(cmds) = 0 THEN 0 ELSE t - Head(cmds).createdAt

\* Mutant: status reports the store as it is, without the sweep.
getStatus_nosweep(cmds, cds, t, t2) ==
    [commands |-> cmds, playerCooldowns |-> cds,
     result |-> [queueSize |-> Len(cmds),
                 maxQueueSize |-> maxQueueSize,
                 cooldownCount |-> Cardinality(DOMAIN cds),
                 oldestCommandAge |-> getOldestCommandAge(cmds, t2)]]

\* getStatus(): the sweep reads the clock at t, getOldestCommandAge reads it
\* again at t2 >= t.
getStatus(cmds, cds, t, t2) ==
    LET swept == cleanupExpiredCommands(cmds, cds, t)
    IN  [commands |-> swept.commands, playerCooldowns |-> swept.playerCooldowns,
         result |-> [queueSize |-> Len(swept.commands),
                     maxQueueSize |-> maxQueueSize,
                     cooldownCount |-> Cardinality(DOMAIN swept.playerCooldowns),
                     oldestCommandAge |-> getOldestCommandAge(swept.commands, t2)]]

\* pollCommand() over the sweep that keeps stale cooldown entries.
pollKeepingStale(cmds, cds, t) ==
    LET swept == cleanupKeepingStale(cmds, cds, t)
    IN  [commands |-> swept.commands, playerCooldowns |-> swept.playerCooldowns,
         result |->
            IF Len(swept.commands) = 0
            THEN [hasCommand |-> FALSE]
            ELSE PollSnapshot(Head(swept.commands))]

\* getStatus() over the sweep that keeps stale cooldown entries.
statusKeepingStale(cmds, cds, t, t2) ==
    LET swept == cleanupKeepingStale(cmds, cds, t)
    IN  [commands |-> swept.commands, playerCooldowns |-> swept.playerCooldowns,
         result |-> [queueSize |-> Len(swept.commands),
                     maxQueueSize |-> maxQueueSize,
                     cooldownCount |-> Cardinality(DOMAIN swept.playerCooldowns),
                     oldestCommandAge |-> getOldestCommandAge(swept.commands, t2)]]

\* ------------------------------------------------------- the HTTP adapter
\* JavaScript values, as far as the handlers tell them apart: the type tag
\* typeof reports, and the content under the tag that applies.
Undefined == [t |-> "undefined", s |-> <<>>, n |-> 0, b |-> FALSE]

Num(k) == [t |-> "number", s |-> <<>>, n |-> k, b |-> FALSE]

Bool(v) == [t |-> "boolean", s |-> <<>>, n |-> 0, b |-> v]

\* A value that is neither a string, a number nor a boolean (an array).
Obj == [t |-> "object", s |-> <<>>, n |-> 0, b |-> FALSE]

\* A string is the sequence of its pieces: a run of characters of
\* [a-zA-Z0-9], a white-space character, or another character.
Str(pieces) == [t |-> "string", s |-> pieces, n |-> 0, b |-> FALSE]

Word(w) == [class |-> "alnum", text |-> w]

Space == [class |-> "space", text |-> " "]

Other == [class |-> "other", text |-> "!"]

\* !v
Falsy(v) ==
    \/ v.t = "undefined"
    \/ v.t = "string" /\ v.s = <<>>
    \/ v.t = "number" /\ v.n = 0
    \/ v.t = "boolean" /\ ~v.b

RECURSIVE TrimStart(_)
TrimStart(s) ==
    IF s # <<>> /\ Head(s).class = "space" THEN TrimStart(Tail(s)) ELSE s

RECURSIVE TrimEnd(_)
TrimEnd(s) ==
    IF s # <<>> /\ s[Len(s)].class = "space"
    THEN TrimEnd(SubSeq(s, 1, Len(s) - 1))
    ELSE s

\* String.prototype.trim
trim(s) == TrimEnd(TrimStart(s))

\* .replace(/[^a-zA-Z0-9\s]/g, '')
sanitize(s) == SelectSeq(s, LAMBDA p : p.class # "other")

\* The string of one run of [a-zA-Z0-9] as the engine gets it.
StringOf(s) == s[1].text

\* The engine's id for the id string the client sends (the model's ids are
\* numbers, written in decimal on the wire); 0, an id never handed out, for
\* any other string.
IdOf(s) ==
    IF Len(s) = 1 /\ \E i \in 1..(MaxIds + 1) : ToString(i) = s[1].text
    THEN CHOOSE i \in 1..(MaxIds + 1) : ToString(i) = s[1].text
    ELSE 0

\* ---------------------------------------------------------- lib/auth.js
\* What the middleware does with a request: it calls next(), or it answers.
Proceed == [next |-> TRUE, status |-> 0, error |-> ""]

Reject(status, error) == [next |-> FALSE, status |-> status, error |-> error]

\* Mutant: a request without a key is let through.
createApiKeyMiddleware_missingPasses(apiKey, required, providedKey) ==
    IF Falsy(apiKey) /\ ~required THEN Proceed
    ELSE IF required /\ Falsy(apiKey) THEN Reject(500, "SERVER_MISCONFIGURED")
    ELSE IF ~Falsy(providedKey) /\ providedKey # apiKey
    THEN Reject(401, "INVALID_API_KEY")
    ELSE Proceed

\* Mutant: the answer to a wrong key is not followed by a return, next() is
\* called as well.
createApiKeyMiddleware_fallsThrough(apiKey, required, providedKey) ==
    IF Falsy(apiKey) /\ ~required THEN Proceed
    ELSE IF required /\ Falsy(apiKey) THEN Reject(500, "SERVER_MISCONFIGURED")
    ELSE IF required /\ Falsy(providedKey) THEN Reject(401, "MISSING_API_KEY")
    ELSE IF ~Falsy(providedKey) /\ providedKey # apiKey
    THEN [next |-> TRUE, status |-> 401, error |-> "INVALID_API_KEY"]
    ELSE Proceed

\* createApiKeyMiddleware({apiKey, required})(req, res, next), providedKey
\* being req.headers['x-api-key'].
createApiKeyMiddleware(apiKey, required, providedKey) ==
    IF Falsy(apiKey) /\ ~required THEN Proceed
    ELSE IF required /\ Falsy(apiKey) THEN Reject(500, "SERVER_MISCONFIGURED")
    ELSE IF required /\ Falsy(providedKey) THEN Reject(401, "MISSING_API_KEY")
    ELSE IF ~Falsy(providedKey) /\ providedKey # apiKey
    THEN Reject(401, "INVALID_API_KEY")
    ELSE Proceed

\* Mutant: the gate is open while the store is empty.
apiKeyMiddleware_openWhenEmpty(providedKey) ==
    IF commands = <<>> THEN Proceed
    ELSE createApiKeyMiddleware(API_KEY, ~Falsy(API_KEY), providedKey)

\* apiKeyMiddleware: the key of the environment, required when it is set.
apiKeyMiddleware(providedKey) ==
    createApiKeyMiddleware(API_KEY, ~Falsy(API_KEY), providedKey)

\* devApiKeyMiddleware: the key of the environment, not required.
devApiKeyMiddleware(providedKey) ==
    createApiKeyMiddleware(API_KEY, FALSE, providedKey)

\* What the gate answers when it does not call next().
gateResponse(gate) ==
    [status |-> gate.status, success |-> FALSE, error |-> gate.error]

\* ------------------------------------------------- the handlers' checks
\* A request the handler answers itself, without calling the engine.
Refuse(status, error) ==
    [ok |-> FALSE,
     response |-> [status |-> status, success |-> FALSE, error |-> error]]

\* POST /api/command, lines 28-84: the method, the fields of the body, the
\* sanitized player name; when all pass, the arguments of addCommand.
validateCommand(req) ==
    IF req.method # "POST" THEN Refuse(405, "METHOD_NOT_ALLOWED")
    ELSE IF Falsy(req.body.type) \/ Falsy(req.body.player)
            \/ Falsy(req.body.timestamp)
    THEN Refuse(400, "MISSING_REQUIRED_FIELDS")
    ELSE IF req.body.type # Str(<<Word("kick")>>)
            /\ req.body.type # Str(<<Word("ban")>>)
    THEN Refuse(400, "INVALID_COMMAND_TYPE")
    ELSE IF req.body.player.t # "string" \/ Len(trim(req.body.player.s)) = 0
    THEN Refuse(400, "INVALID_PLAYER_NAME")
    ELSE IF req.body.timestamp.t # "number" \/ req.body.timestamp.n <= 0
    THEN Refuse(400, "INVALID_TIMESTAMP")
    ELSE LET sanitizedPlayer == sanitize(trim(req.body.player.s))
         IN  IF Len(sanitizedPlayer) = 0
             THEN Refuse(400, "INVALID_PLAYER_NAME")
             ELSE [ok |-> TRUE,
                   type |-> StringOf(req.body.type.s),
                   player |-> StringOf(sanitizedPlayer),
                   timestamp |-> req.body.timestamp.n]

\* GET /api/poll, lines 36-54: the method and the deviceId of the query.
validatePoll(req) ==
    IF req.method # "GET" THEN Refuse(405, "METHOD_NOT_ALLOWED")
    ELSE IF ~Falsy(req.deviceId) /\ req.deviceId.t # "string"
    THEN Refuse(400, "INVALID_DEVICE_ID")
    ELSE [ok |-> TRUE]

\* POST /api/complete, lines 30-69: the method and the fields of the body;
\* when all pass, the arguments of completeCommand.
validateComplete(req) ==
    IF req.method # "POST" THEN Refuse(405, "METHOD_NOT_ALLOWED")
    ELSE IF Falsy(req.body.commandId) \/ req.body.success.t # "boolean"
    THEN Refuse(400, "MISSING_REQUIRED_FIELDS")
    ELSE IF req.body.commandId.t # "string"
            \/ Len(trim(req.body.commandId.s)) = 0
    THEN Refuse(400, "INVALID_COMMAND_ID")
    ELSE IF req.body.error.t \notin {"undefined", "string"}
    THEN Refuse(400, "INVALID_ERROR_FIELD")
    ELSE [ok |-> TRUE,
          commandId |-> IdOf(trim(req.body.commandId.s)),
          success |-> req.body.success.b]

\* http, while no request has been made.
NoExchange == [route |-> "none"]

\* Mutant: COMMAND_NOT_FOUND is answered as the error it is in the engine.
completeResponse_notFound(r, commandId) ==
    IF ~r.success
    THEN [status |-> 404, success |-> FALSE, error |-> r.error,
          commandId |-> commandId]
    ELSE [status |-> 200, success |-> TRUE, removed |-> r.removed,
          commandId |-> r.commandId]

\* POST /api/complete, lines 68-96: what the handler answers for the
\* engine's result r on the (trimmed) id.
completeResponse(r, commandId) ==
    IF ~r.success
    THEN IF r.error = "COMMAND_NOT_FOUND"
         THEN [status |-> 200, success |-> TRUE, removed |-> FALSE,
               commandId |-> commandId]
         ELSE [status |-> 500, success |-> FALSE, error |-> "COMPLETION_ERROR"]
    ELSE [status |-> 200, success |-> TRUE, removed |-> r.removed,
          commandId |-> r.commandId]

\* Mutant: every failure of the engine is answered as a server error.
commandResponse_unmapped(r) ==
    IF ~r.success
    THEN [status |-> 500, success |-> FALSE, error |-> "QUEUE_ERROR"]
    ELSE [status |-> 200, success |-> TRUE, commandId |-> r.commandId,
          queuePosition |-> r.queuePosition]

\* POST /api/command, lines 86-117: what the handler answers for the
\* engine's result r.
commandResponse(r) ==
    IF ~r.success
    THEN IF r.error = "DUPLICATE_COMMAND"
         THEN [status |-> 409, success |-> FALSE, error |-> r.error]
         ELSE IF r.error = "QUEUE_FULL"
         THEN [status |-> 503, success |-> FALSE, error |-> r.error]
         ELSE [status |-> 500, success |-> FALSE, error |-> "QUEUE_ERROR"]
    ELSE [status |-> 200, success |-> TRUE, commandId |-> r.commandId,
          queuePosition |-> r.queuePosition]

\* ------------------------------------------------------------ history
NoCommand == [at |-> 0, id |-> 0]

\* The ids a sweep at clock reading t takes out of cmds.
SweptIds(cmds, cds, t) ==
    IdsOf(cmds) \ IdsOf(cleanupExpiredCommands(cmds, cds, t).commands)

\* The player of a complete call that found no command.
NoPlayer == "none"

\* The players of the commands a sweep at clock reading t takes out of cmds.
SweptPlayers(cmds, cds, t) ==
    {cmds[i].player :
        i \in {j \in DOMAIN cmds : cmds[j].id \in SweptIds(cmds, cds, t)}}

\* What a submit for player p comes right after: a complete call that
\* removed a command of p, reporting success=true or success=false, a sweep
\* that removed an expired command of p, or anything else.
Follows(p) ==
    IF res.op = "complete" /\ res.player = p
    THEN IF res.flag THEN "success" ELSE "failure"
    ELSE IF res.op \in {"poll", "status", "sweep"} /\ p \in res.sweptPlayers
    THEN "expiry"
    ELSE "other"

\* before, while no requests have arrived together.
NoBatch == [size |-> 0, cooldowns |-> {}]

NoPoll == [id |-> 0, expiresAt |-> 0, cleared |-> FALSE]

\* Whether a step from store cmds to store after takes a command out of a
\* full store.
Frees(cmds, after) == Len(cmds) = maxQueueSize /\ Len(after) < Len(cmds)


\* The engine without the second loop of cleanupExpiredCommands, before
\* any call.
NoneKept == [commands |-> <<>>, playerCooldowns |-> <<>>, result |-> <<>>]

\* ------------------------------------------------------------------ Init
InitEngine ==
    /\ commands = <<>>
    /\ playerCooldowns = <<>>
    /\ now = 1
    /\ nextId = 1
    /\ res = [op |-> "none"]
    /\ lastAccepted = [p \in Players |-> NoCommand]
    /\ unblocked = {}
    /\ freed = FALSE
    /\ polled = NoPoll
    /\ inflight = EmptyBag
    /\ answers = EmptyBag
    /\ batch = EmptyBag
    /\ before = NoBatch
    /\ phase = "idle"
    /\ drained = <<>>
    /\ shadow = NoneKept

\* The engine is called directly: no API key is set, no request was made.
Init == InitEngine /\ API_KEY = Undefined /\ http = NoExchange

\* --------------------------------------------------------------- actions
\* The clock advances.
Tick ==
    /\ now < MaxTime
    /\ now' = now + 1
    /\ UNCHANGED <<commands, playerCooldowns, nextId, res, lastAccepted,
                   unblocked, freed, polled>>

\* submit: POST /api/command with a valid body, i.e. queue.addCommand.
Submit(type, player, timestamp) ==
    /\ nextId <= MaxIds
    /\ LET r == addCommand(commands, playerCooldowns, type, player, timestamp,
                           now, generateCommandId)
       IN  /\ commands' = r.commands
           /\ playerCooldowns' = r.playerCooldowns
           /\ res' = [op |-> "submit", player |-> player,
                      result |-> r.result, freed |-> freed,
                      follows |-> Follows(player)]
           /\ nextId' = IF r.result.success THEN nextId + 1 ELSE nextId
           /\ lastAccepted' =
                IF r.result.success
                THEN [lastAccepted EXCEPT
                        ![player] = [at |-> now, id |-> r.result.commandId]]
                ELSE lastAccepted
           /\ unblocked' = IF r.result.success THEN unblocked \ {player}
                           ELSE unblocked
    /\ freed' = FALSE
    /\ UNCHANGED <<now, polled>>

\* poll: GET /api/poll, i.e. queue.pollCommand.
Poll ==
    /\ LET r == pollCommand(commands, playerCooldowns, now)
       IN  /\ commands' = r.commands
           /\ playerCooldowns' = r.playerCooldowns
           /\ res' = [op |-> "poll", result |-> r.result,
                      swept |-> SweptIds(commands, playerCooldowns, now),
                      sweptPlayers |->
                          SweptPlayers(commands, playerCooldowns, now)]
           /\ polled' = IF r.result.hasCommand
                        THEN [id |-> r.result.command.id,
                              expiresAt |->
                                  CommandsGet(commands,
                                              r.result.command.id).expiresAt,
                              cleared |-> FALSE]
                        ELSE NoPoll
           /\ freed' = (freed \/ Frees(commands, r.commands))
    /\ UNCHANGED <<now, nextId, lastAccepted, unblocked>>

\* complete: POST /api/complete with a valid body.
Complete(commandId, success) ==
    /\ LET r == completeCommand(commands, playerCooldowns, commandId, success)
       IN  /\ commands' = r.commands
           /\ playerCooldowns' = r.playerCooldowns
           /\ res' = [op |-> "complete", commandId |-> commandId,
                      result |-> completeResponse(r.result, commandId),
                      repeat |-> (res.op = "complete"
                                  /\ res.commandId = commandId),
                      player |-> IF r.result.success
                                 THEN CommandsGet(commands, commandId).player
                                 ELSE NoPlayer,
                      flag |-> (r.result.success /\ success)]
           /\ polled' = NoPoll
           /\ unblocked' =
                IF r.result.success /\ success
                THEN unblocked \cup {CommandsGet(commands, commandId).player}
                ELSE unblocked
           /\ freed' = (freed \/ Frees(commands, r.commands))
    /\ UNCHANGED <<now, nextId, lastAccepted>>

\* status: GET /api/status, i.e. queue.getStatus; the clock may advance
\* between its two readings.
Status ==
    \E t2 \in {now, now + 1} :
        /\ t2 <= MaxTime
        /\ LET r == getStatus(commands, playerCooldowns, now, t2)
           IN  /\ commands' = r.commands
               /\ playerCooldowns' = r.playerCooldowns
               /\ res' = [op |-> "status", result |-> r.result,
                          swept |-> SweptIds(commands, playerCooldowns, now),
                          sweptPlayers |->
                              SweptPlayers(commands, playerCooldowns, now)]
               /\ freed' = (freed \/ Frees(commands, r.commands))
        /\ now' = t2
        /\ UNCHANGED <<nextId, lastAccepted, unblocked, polled>>

\* startCleanup(): the setInterval callback.
TimerSweep ==
    /\ LET r == cleanupExpiredCommands(commands, playerCooldowns, now)
       IN  /\ commands' = r.commands
           /\ playerCooldowns' = r.playerCooldowns
           /\ freed' = (freed \/ Frees(commands, r.commands))
    /\ res' = [op |-> "sweep",
               swept |-> SweptIds(commands, playerCooldowns, now),
               sweptPlayers |-> SweptPlayers(commands, playerCooldowns, now)]
    /\ UNCHANGED <<now, nextId, lastAccepted, unblocked, polled>>

\* clear(): used by the tests between runs.
Clear ==
    /\ commands' = <<>>
    /\ playerCooldowns' = <<>>
    /\ res' = [op |-> "clear"]
    /\ unblocked' = {p \in Players : lastAccepted[p] # NoCommand}
    /\ polled' = IF polled = NoPoll THEN NoPoll
                  ELSE [polled EXCEPT !.cleared = TRUE]
    /\ UNCHANGED <<now, nextId, lastAccepted, freed>>

SubmitAny == \E req \in Requests : Submit(req.type, req.player, req.timestamp)

\* The ids tried: every id handed out so far and one that never was.
CompleteAny == \E commandId \in 1..nextId, success \in BOOLEAN :
                  Complete(commandId, success)

\* One request at a time, answered before the next one arrives; no requests
\* are in the server together.
SeqTick == phase = "idle" /\ Tick /\ UNCHANGED <<concVars, httpVars, shadow>>

SeqSubmit == phase = "idle" /\ SubmitAny /\ UNCHANGED <<concVars, httpVars, shadow>>

SeqPoll == phase = "idle" /\ Poll /\ UNCHANGED <<concVars, httpVars, shadow>>

SeqComplete == phase = "idle" /\ CompleteAny /\ UNCHANGED <<concVars, httpVars, shadow>>

SeqStatus == phase = "idle" /\ Status /\ UNCHANGED <<concVars, httpVars, shadow>>

SeqSweep == phase = "idle" /\ TimerSweep /\ UNCHANGED <<concVars, httpVars, shadow>>

SeqClear == phase = "idle" /\ Clear /\ UNCHANGED <<concVars, httpVars, shadow>>

Next ==
    \/ SeqTick
    \/ SeqSubmit
    \/ SeqPoll
    \/ SeqComplete
    \/ SeqStatus
    \/ SeqSweep
    \/ SeqClear

Spec == Init /\ [][Next]_vars

\* ------------------------------------------- requests in the server together
\* Every handler is synchronous inside the middleware callback (no await
\* between the request and its response), so requests that are in the
\* server together are handled one whole handler after the other, in any
\* order.  They are handled at one reading of the clock, and so are the
\* sequential calls the client makes once it has all the responses.
engineVars == <<commands, playerCooldowns, now, nextId, res, lastAccepted,
                unblocked, freed, polled>>

\* The bags of at most MaxBatch submit requests.
SubmitBatches ==
    LET Bag(c) == [r \in {q \in Requests : c[q] > 0} |-> c[r]]
    IN  {Bag(c) : c \in {d \in [Requests -> 0..MaxBatch] :
                             BagCardinality(Bag(d)) \in 1..MaxBatch}}

\* Copies completion requests, with one success flag, for every pending id.
CompleteBatch(cmds, success) ==
    [r \in {[commandId |-> id, success |-> success] : id \in IdsOf(cmds)}
        |-> Copies]

\* Promise.all over POST /api/command: the requests arrive together.
ArriveSubmits ==
    /\ phase = "idle"
    /\ \E b \in SubmitBatches :
          /\ inflight' = b
          /\ batch' = b
    /\ answers' = EmptyBag
    /\ before' = [size |-> Len(commands), cooldowns |-> DOMAIN playerCooldowns]
    /\ phase' = "submits"
    /\ drained' = <<>>
    /\ UNCHANGED <<engineVars, httpVars, shadow>>

\* Promise.all over POST /api/complete: the requests arrive together.
ArriveCompletes ==
    /\ phase = "idle"
    /\ commands # <<>>
    /\ \E success \in BOOLEAN :
          /\ inflight' = CompleteBatch(commands, success)
          /\ batch' = CompleteBatch(commands, success)
    /\ answers' = EmptyBag
    /\ before' = [size |-> Len(commands), cooldowns |-> DOMAIN playerCooldowns]
    /\ phase' = "completes"
    /\ drained' = <<>>
    /\ UNCHANGED <<engineVars, httpVars, shadow>>

\* The event loop runs the handler of one of the submit requests.
HandleSubmit ==
    /\ phase = "submits"
    /\ \E r \in BagToSet(inflight) :
          /\ Submit(r.type, r.player, r.timestamp)
          /\ inflight' = inflight (-) SetToBag({r})
    /\ answers' = answers (+) SetToBag({commandResponse(res'.result)})
    /\ phase' = IF inflight' = EmptyBag THEN "drain" ELSE "submits"
    /\ UNCHANGED <<batch, before, drained, httpVars, shadow>>

\* The event loop runs the handler of one of the complete requests.
HandleComplete ==
    /\ phase = "completes"
    /\ \E r \in BagToSet(inflight) :
          /\ Complete(r.commandId, r.success)
          /\ inflight' = inflight (-) SetToBag({r})
    /\ answers' = answers (+) SetToBag({res'.result})
    /\ phase' = IF inflight' = EmptyBag THEN "after" ELSE "completes"
    /\ UNCHANGED <<batch, before, drained, httpVars, shadow>>

\* After the submits: the client polls, one call at a time.
DrainPoll ==
    /\ phase = "drain"
    /\ polled = NoPoll
    /\ Poll
    /\ drained' = IF res'.result.hasCommand
                  THEN Append(drained, res'.result.command.id)
                  ELSE drained
    /\ phase' = IF res'.result.hasCommand THEN "drain" ELSE "drained"
    /\ UNCHANGED <<inflight, answers, batch, before, httpVars, shadow>>

\* After the submits: the client completes, with success=true, the command
\* its poll returned.
DrainComplete ==
    /\ phase = "drain"
    /\ polled # NoPoll
    /\ Complete(polled.id, TRUE)
    /\ UNCHANGED <<concVars, httpVars, shadow>>

\* After the completions: the client polls.
AfterPoll ==
    /\ phase = "after"
    /\ Poll
    /\ phase' = "polled"
    /\ UNCHANGED <<inflight, answers, batch, before, drained, httpVars, shadow>>

\* After the completions and the poll: the client asks for the status.
AfterStatus ==
    /\ phase = "polled"
    /\ Status
    /\ phase' = "done"
    /\ UNCHANGED <<inflight, answers, batch, before, drained, httpVars, shadow>>

\* Before the requests arrive together the clock advances and the queue is
\* cleared, as in the tests, and submits and completes are answered one at
\* a time.
NextConc ==
    \/ SeqTick
    \/ SeqSubmit
    \/ SeqComplete
    \/ SeqClear
    \/ ArriveSubmits
    \/ ArriveCompletes
    \/ HandleSubmit
    \/ HandleComplete
    \/ DrainPoll
    \/ DrainComplete
    \/ AfterPoll
    \/ AfterStatus

SpecConc == Init /\ [][NextConc]_vars

\* ---------------------------------------------------- the HTTP handlers
\* The X-API-Key headers sent: none, an empty one, two keys.
Headers == {Undefined, Str(<<>>), Str(<<Word("k1")>>), Str(<<Word("k2")>>)}

\* The header of a client that knows the key of the environment.
GoodHeader == IF Falsy(API_KEY) THEN Undefined ELSE API_KEY

\* The bodies of Requests as they come in, and one that differs from them
\* by characters the handler takes out.
KickAlice ==
    [type |-> Str(<<Word("kick")>>), player |-> Str(<<Word("Alice")>>),
     timestamp |-> Num(1000)]

BanBob ==
    [type |-> Str(<<Word("ban")>>), player |-> Str(<<Word("Bob")>>),
     timestamp |-> Num(2000)]

ValidBodies ==
    {KickAlice, BanBob,
     [BanBob EXCEPT !.player = Str(<<Space, Word("Bob"), Other>>)]}

\* Bodies with one field missing or wrong.
MalformedBodies ==
    {[KickAlice EXCEPT !.type = v] :
        v \in {Undefined, Str(<<Word("mute")>>)}}
    \cup {[KickAlice EXCEPT !.player = v] :
        v \in {Str(<<>>), Str(<<Space>>), Str(<<Other>>), Num(42)}}
    \cup {[KickAlice EXCEPT !.timestamp = v] :
        v \in {Num(0), Num(-5), Str(<<Word("1000")>>)}}

\* The requests to POST /api/command: any header, a wrong method, any body.
CommandRequests ==
    {[header |-> h, method |-> "POST", body |-> KickAlice] : h \in Headers}
    \cup {[header |-> GoodHeader, method |-> "GET", body |-> KickAlice]}
    \cup {[header |-> GoodHeader, method |-> "POST", body |-> b] :
            b \in ValidBodies \cup MalformedBodies}

\* The requests to GET /api/poll.
PollRequests ==
    {[header |-> h, method |-> "GET", deviceId |-> Undefined] : h \in Headers}
    \cup {[header |-> GoodHeader, method |-> "POST", deviceId |-> Undefined]}
    \cup {[header |-> GoodHeader, method |-> "GET", deviceId |-> Obj]}

\* The id string of the command the model numbers i.
IdStr(i) == Str(<<Word(ToString(i))>>)

Done(i, ok) == [commandId |-> IdStr(i), success |-> Bool(ok), error |-> Undefined]

\* The requests to POST /api/complete: the ids are those handed out so far
\* and one that never was.
CompleteRequests ==
    {[header |-> h, method |-> "POST", body |-> Done(1, TRUE)] : h \in Headers}
    \cup {[header |-> GoodHeader, method |-> "GET", body |-> Done(1, TRUE)]}
    \cup {[header |-> GoodHeader, method |-> "POST", body |-> Done(i, ok)] :
            i \in 1..nextId, ok \in BOOLEAN}
    \cup {[header |-> GoodHeader, method |-> "POST", body |-> b] :
            b \in {[Done(1, FALSE) EXCEPT
                       !.commandId = Str(<<Space, Word("1"), Space>>),
                       !.error = Str(<<Word("timeout")>>)],
                   [Done(1, TRUE) EXCEPT !.commandId = Str(<<Space>>)],
                   [Done(1, TRUE) EXCEPT !.success = Str(<<Word("true")>>)],
                   [Done(1, TRUE) EXCEPT !.error = Num(5)]}}

\* The exchange of a request the gate or the handler's checks turned away.
Unserved(route, req, gate, response) ==
    [route |-> route, request |-> req, gate |-> gate, called |-> FALSE,
     response |-> response]

\* The exchange of a request that reached the engine.
Served(route, req, response) ==
    [route |-> route, request |-> req, gate |-> Proceed, called |-> TRUE,
     response |-> response]

\* Mutant: the timestamp is checked after the command is queued.
HttpCommand_checksLate(req) ==
    /\ phase = "idle"
    /\ LET gate == apiKeyMiddleware(req.header)
           checked == validateCommand(req)
           lenient == validateCommand(
                          [req EXCEPT !.body.timestamp = Num(1000)])
       IN  IF ~gate.next
           THEN /\ http' = Unserved("command", req, gate, gateResponse(gate))
                /\ UNCHANGED engineVars
           ELSE IF ~lenient.ok
           THEN /\ http' = Unserved("command", req, gate, lenient.response)
                /\ UNCHANGED engineVars
           ELSE /\ Submit(lenient.type, lenient.player, lenient.timestamp)
                /\ http' = IF checked.ok
                           THEN Served("command", req,
                                       commandResponse(res'.result))
                           ELSE Unserved("command", req, gate,
                                         checked.response)
    /\ phase' = "answered"
    /\ UNCHANGED <<inflight, answers, batch, before, drained, API_KEY, shadow>>

\* POST /api/command: the gate, the checks, addCommand, the answer.
HttpCommand(req) ==
    /\ phase = "idle"
    /\ LET gate == apiKeyMiddleware(req.header)
           checked == validateCommand(req)
       IN  IF ~gate.next
           THEN /\ http' = Unserved("command", req, gate, gateResponse(gate))
                /\ UNCHANGED engineVars
           ELSE IF ~checked.ok
           THEN /\ http' = Unserved("command", req, gate, checked.response)
                /\ UNCHANGED engineVars
           ELSE /\ Submit(checked.type, checked.player, checked.timestamp)
                /\ http' = Served("command", req, commandResponse(res'.result))
    /\ phase' = "answered"
    /\ UNCHANGED <<inflight, answers, batch, before, drained, API_KEY, shadow>>

\* GET /api/poll: the gate, the checks, pollCommand, the answer.
HttpPoll(req) ==
    /\ phase = "idle"
    /\ LET gate == apiKeyMiddleware(req.header)
           checked == validatePoll(req)
       IN  IF ~gate.next
           THEN /\ http' = Unserved("poll", req, gate, gateResponse(gate))
                /\ UNCHANGED engineVars
           ELSE IF ~checked.ok
           THEN /\ http' = Unserved("poll", req, gate, checked.response)
                /\ UNCHANGED engineVars
           ELSE /\ Poll
                /\ http' = Served("poll", req,
                                  [status |-> 200, body |-> res'.result])
    /\ phase' = "answered"
    /\ UNCHANGED <<inflight, answers, batch, before, drained, API_KEY, shadow>>

\* POST /api/complete: the gate, the checks, completeCommand, the answer.
HttpComplete(req) ==
    /\ phase = "idle"
    /\ LET gate == apiKeyMiddleware(req.header)
           checked == validateComplete(req)
       IN  IF ~gate.next
           THEN /\ http' = Unserved("complete", req, gate, gateResponse(gate))
                /\ UNCHANGED engineVars
           ELSE IF ~checked.ok
           THEN /\ http' = Unserved("complete", req, gate, checked.response)
                /\ UNCHANGED engineVars
           ELSE /\ Complete(checked.commandId, checked.success)
                /\ http' = Served("complete", req, res'.result)
    /\ phase' = "answered"
    /\ UNCHANGED <<inflight, answers, batch, before, drained, API_KEY, shadow>>

\* The answer is sent: the exchange is over.
HttpDone ==
    /\ phase = "answered"
    /\ phase' = "idle"
    /\ http' = NoExchange
    /\ UNCHANGED <<engineVars, inflight, answers, batch, before, drained,
                   API_KEY, shadow>>

CommandRequest == \E req \in CommandRequests : HttpCommand(req)

PollRequest == \E req \in PollRequests : HttpPoll(req)

CompleteRequest == \E req \in CompleteRequests : HttpComplete(req)

\* The server behind its HTTP interface, with or without a key in the
\* environment.
InitHttp ==
    /\ InitEngine
    /\ API_KEY \in {Undefined, Str(<<Word("k1")>>)}
    /\ http = NoExchange

\* The clock advances, as far as the requests need it to.
HttpTick == now < MaxHttpTime /\ SeqTick

NextHttp ==
    \/ HttpTick
    \/ CommandRequest
    \/ PollRequest
    \/ CompleteRequest
    \/ HttpDone

SpecHttp == InitHttp /\ [][NextHttp]_vars

\* ------------------------------------------------- the middleware alone
\* The middleware called on its own, as the tests of lib/auth.js do.
Called(apiKey, required, providedKey, gate) ==
    [route |-> "middleware",
     config |-> [apiKey |-> apiKey, required |-> required],
     header |-> providedKey, gate |-> gate]

\* A middleware made by createApiKeyMiddleware with any options.
CallCreated ==
    /\ \E apiKey \in Headers, required \in BOOLEAN, providedKey \in Headers :
          http' = Called(apiKey, required, providedKey,
                         createApiKeyMiddleware(apiKey, required, providedKey))
    /\ UNCHANGED <<engineVars, concVars, API_KEY, shadow>>

\* The exported apiKeyMiddleware.
CallDefault ==
    /\ \E providedKey \in Headers :
          http' = Called(API_KEY, ~Falsy(API_KEY), providedKey,
                         apiKeyMiddleware(providedKey))
    /\ UNCHANGED <<engineVars, concVars, API_KEY, shadow>>

\* The exported devApiKeyMiddleware.
CallDev ==
    /\ \E providedKey \in Headers :
          http' = Called(API_KEY, FALSE, providedKey,
                         devApiKeyMiddleware(providedKey))
    /\ UNCHANGED <<engineVars, concVars, API_KEY, shadow>>

InitAuth ==
    /\ InitEngine
    /\ API_KEY \in Headers
    /\ http = NoExchange

NextAuth ==
    \/ CallCreated
    \/ CallDefault
    \/ CallDev

SpecAuth == InitAuth /\ [][NextAuth]_vars

\* ------------------------------------- with and without the second loop
\* The engine and, beside it, an engine whose sweep has no second loop
\* (shadow), given the same calls at the same readings of the clock.
GCTick == SeqTick /\ UNCHANGED shadow

GCSubmit ==
    /\ phase = "idle"
    /\ \E req \in Requests :
          /\ Submit(req.type, req.player, req.timestamp)
          /\ shadow' = addCommand(shadow.commands, shadow.playerCooldowns, req.type,
                                req.player, req.timestamp, now,
                                generateCommandId)
    /\ UNCHANGED <<concVars, httpVars>>

GCPoll ==
    /\ phase = "idle"
    /\ Poll
    /\ shadow' = pollKeepingStale(shadow.commands, shadow.playerCooldowns, now)
    /\ UNCHANGED <<concVars, httpVars>>

GCComplete ==
    /\ phase = "idle"
    /\ \E commandId \in 1..nextId, success \in BOOLEAN :
          /\ Complete(commandId, success)
          /\ LET r == completeCommand(shadow.commands, shadow.playerCooldowns,
                                      commandId, success)
             IN  shadow' = [commands |-> r.commands,
                          playerCooldowns |-> r.playerCooldowns,
                          result |-> completeResponse(r.result, commandId)]
    /\ UNCHANGED <<concVars, httpVars>>

GCStatus ==
    /\ phase = "idle"
    /\ Status
    /\ shadow' = statusKeepingStale(shadow.commands, shadow.playerCooldowns, now,
                                  now')
    /\ UNCHANGED <<concVars, httpVars>>

GCSweep ==
    /\ phase = "idle"
    /\ TimerSweep
    /\ LET r == cleanupKeepingStale(shadow.commands, shadow.playerCooldowns, now)
       IN  shadow' = [commands |-> r.commands,
                    playerCooldowns |-> r.playerCooldowns,
                    result |-> shadow.result]
    /\ UNCHANGED <<concVars, httpVars>>

NextGC ==
    \/ GCTick
    \/ GCSubmit
    \/ GCPoll
    \/ GCComplete
    \/ GCStatus
    \/ GCSweep

SpecGC == Init /\ [][NextGC]_vars

\* --------------------------------------------------- the timer on its own
\* The engine with no poll and no status call: commands are submitted and
\* completed, the clock advances and the setInterval callback runs.  The
\* clock runs on after the last time a command is submitted at, far enough
\* for that command to expire.
LiveHorizon == MaxLiveTime + commandExpirationMs + 1

LiveTick ==
    /\ phase = "idle"
    /\ now < LiveHorizon
    /\ now' = now + 1
    /\ UNCHANGED <<commands, playerCooldowns, nextId, res, lastAccepted,
                   unblocked, freed, polled>>
    /\ UNCHANGED <<concVars, httpVars, shadow>>

LiveSubmit == now <= MaxLiveTime /\ SeqSubmit

LiveComplete == SeqComplete

LiveSweep == SeqSweep

NextLive ==
    \/ LiveTick
    \/ LiveSubmit
    \/ LiveComplete
    \/ LiveSweep

\* The clock advances, and the interval timer started in the constructor
\* fires again and again.
SpecLive ==
    /\ Init
    /\ [][NextLive]_vars
    /\ WF_vars(LiveTick)
    /\ WF_vars(LiveSweep)

\* ------------------------------------------------------------ properties
Abs(n) == IF n < 0 THEN -n ELSE n

\* The steps of each operation (the value of res.op is tested first only to
\* spare evaluating the action on the steps of the other operations).
SubmitStep(type, player, timestamp) ==
    res'.op = "submit" /\ Submit(type, player, timestamp)

PollStep == res'.op = "poll" /\ Poll

CompleteStep(commandId, success) ==
    /\ res'.op = "complete"
    /\ res'.commandId = commandId
    /\ Complete(commandId, success)

StatusStep == res'.op = "status" /\ Status

ClearStep == res'.op = "clear" /\ Clear

TimerSweepStep == res'.op = "sweep" /\ TimerSweep

\* A step that runs the expiration sweep: poll, status or the timer.
SweepStep == PollStep \/ StatusStep \/ TimerSweepStep

\* C1: no player ever has two pending commands in the store whose createdAt
\* values are less than the cooldown window apart.
C1_NoTwoPendingWithinCooldown ==
    \A i, j \in DOMAIN commands :
        (i # j /\ commands[i].player = commands[j].player)
            => Abs(commands[i].createdAt - commands[j].createdAt)
                   >= duplicateCooldownMs

\* C2: a submit for a player less than the cooldown window after that
\* player's last accepted submit, with no success=true completion of one of
\* the player's commands and no clear in between, fails with
\* DUPLICATE_COMMAND.
C2_DuplicateWithinCooldownRejected ==
    [][\A req \in Requests :
          (/\ SubmitStep(req.type, req.player, req.timestamp)
           /\ lastAccepted[req.player] # NoCommand
           /\ req.player \notin unblocked
           /\ now - lastAccepted[req.player].at < duplicateCooldownMs)
          => (/\ ~res'.result.success
              /\ res'.result.error = "DUPLICATE_COMMAND")]_vars

\* C3: a submit for a player more than the cooldown window after that
\* player's last accepted submit, made while the store is below capacity, is
\* accepted, and its id differs from the id of that last accepted command.
C3_SubmitAfterCooldownAccepted ==
    [][\A req \in Requests :
          (/\ SubmitStep(req.type, req.player, req.timestamp)
           /\ lastAccepted[req.player] # NoCommand
           /\ now - lastAccepted[req.player].at > duplicateCooldownMs
           /\ Len(commands) < maxQueueSize)
          => (/\ res'.result.success
              /\ res'.result.commandId # lastAccepted[req.player].id)]_vars

\* C3 witness: a submit was accepted for a player whose previous accepted
\* command (the id handed out just before), accepted more than the cooldown
\* window earlier, is still pending.
C3_Witness ==
    /\ res.op = "submit"
    /\ res.result.success
    /\ \E i, j \in DOMAIN commands :
          /\ commands[j].id = res.result.commandId
          /\ commands[i].player = commands[j].player
          /\ commands[i].id = lastAccepted[commands[j].player].id - 1
          /\ commands[j].createdAt - commands[i].createdAt > duplicateCooldownMs

\* C4 as stated: once now >= expiresAt, poll does not return the command and
\* status does not count it.
C4_UnobservableFromExpiresAt ==
    [][/\ PollStep => \A i \in DOMAIN commands :
                    now >= commands[i].expiresAt
                        => ~(/\ res'.result.hasCommand
                             /\ res'.result.command.id = commands[i].id)
       /\ StatusStep => res'.result.queueSize =
                        Cardinality({i \in DOMAIN commands :
                                        ~(now >= commands[i].expiresAt)})]_vars

\* C4 amended: once now > expiresAt, poll does not return the command and
\* status does not count it, whether or not a sweep has run since.
C4_UnobservableAfterExpiresAt ==
    [][/\ PollStep => \A i \in DOMAIN commands :
                    now > commands[i].expiresAt
                        => ~(/\ res'.result.hasCommand
                             /\ res'.result.command.id = commands[i].id)
       /\ StatusStep => res'.result.queueSize =
                        Cardinality({i \in DOMAIN commands :
                                        ~(now > commands[i].expiresAt)})]_vars

\* C4 witness: a poll found an expired command still in the store, removed
\* it and returned a later one.
C4_Witness ==
    /\ res.op = "poll"
    /\ res.swept # {}
    /\ res.result.hasCommand

\* C5: a pending command stays in the store across every step other than a
\* complete call for its id and a clear, while the clock is below its
\* expiresAt; a status call counts it.
C5_PendingUntilExpiration ==
    [][\A i \in DOMAIN commands :
          (/\ now' < commands[i].expiresAt
           /\ ~ClearStep
           /\ ~(\E success \in BOOLEAN : CompleteStep(commands[i].id, success)))
          => (/\ \E j \in DOMAIN commands' : commands'[j] = commands[i]
              /\ StatusStep => res'.result.queueSize >=
                              Cardinality({k \in DOMAIN commands :
                                             now' < commands[k].expiresAt}))]_vars

\* C5 witness: a status call, made after the clock advanced, counts two
\* commands that are not yet expired.
C5_Witness ==
    /\ res.op = "status"
    /\ res.result.queueSize = 2
    /\ res.result.oldestCommandAge > 0
    /\ \A i \in DOMAIN commands : now < commands[i].expiresAt

\* C6: poll returns the earliest accepted command (the smallest id, ids
\* being handed out in acceptance order) among the pending commands that
\* are not expired, and nothing only when there is none; a complete call for
\* a pending id removes that command alone and keeps the order of the rest.
C6_PollReturnsOldest ==
    [][/\ PollStep =>
            LET live == {commands[i].id :
                            i \in {k \in DOMAIN commands :
                                     ~(now > commands[k].expiresAt)}}
            IN  IF live = {}
                THEN ~res'.result.hasCommand
                ELSE /\ res'.result.hasCommand
                     /\ res'.result.command.id \in live
                     /\ \A id \in live : res'.result.command.id <= id
       /\ \A id \in IdsOf(commands), success \in BOOLEAN :
            CompleteStep(id, success) =>
                commands' = SelectSeq(commands, LAMBDA c : c.id # id)]_vars

\* C6 witness: a poll returned a command while two were pending.
C6_Witness ==
    /\ res.op = "poll"
    /\ res.result.hasCommand
    /\ Len(commands) >= 2
    /\ res.result.command.id < commands[2].id

C8_CompleteIdempotent ==
    [][/\ \A id \in 1..nextId, success \in BOOLEAN :
            CompleteStep(id, success)
                => (/\ res'.result.status = 200
                    /\ res'.result.success
                    /\ res'.result.removed = (id \in IdsOf(commands))
                    /\ res'.result.commandId = id
                    /\ id \notin IdsOf(commands'))
       /\ \A id \in 1..(nextId - 1) :
            id \notin IdsOf(commands) => id \notin IdsOf(commands')]_vars

\* C8 witness: the same accepted id was completed twice in a row; the second
\* call answered success with removed=false.
C8_Witness ==
    /\ res.op = "complete"
    /\ res.repeat
    /\ res.result.success
    /\ ~res.result.removed
    /\ \E p \in Players : lastAccepted[p].id = res.result.commandId

\* C9: a complete call for an id that is not in the store leaves the pending
\* commands and the cooldown table as they were.
C9_CompleteUnknownNoChange ==
    [][\A id \in 1..nextId, success \in BOOLEAN :
          (CompleteStep(id, success) /\ id \notin IdsOf(commands))
              => (/\ commands' = commands
                  /\ playerCooldowns' = playerCooldowns)]_vars

\* C9 witness: a complete call for an absent id was answered while a command
\* was pending and a cooldown entry existed.
C9_Witness ==
    /\ res.op = "complete"
    /\ ~res.result.removed
    /\ commands # <<>>
    /\ DOMAIN playerCooldowns # {}

\* C10: the store never holds more than maxQueueSize commands, and a submit
\* made when it holds exactly maxQueueSize, for a player with no blocking
\* cooldown entry, fails with QUEUE_FULL.
C10_CapacityBound ==
    [][/\ Len(commands) <= maxQueueSize
       /\ Len(commands') <= maxQueueSize
       /\ \A req \in Requests :
            (/\ SubmitStep(req.type, req.player, req.timestamp)
             /\ Len(commands) = maxQueueSize
             /\ (req.player \notin DOMAIN playerCooldowns
                 \/ now - playerCooldowns[req.player] >= duplicateCooldownMs))
            => (/\ ~res'.result.success
                /\ res'.result.error = "QUEUE_FULL")]_vars

\* C10 witness: a submit was refused with QUEUE_FULL at a full store.
C10_Witness ==
    /\ res.op = "submit"
    /\ ~res.result.success
    /\ res.result.error = "QUEUE_FULL"
    /\ Len(commands) = maxQueueSize

\* Whether a submit for player p at the pre-state meets no blocking cooldown
\* entry: none at all, or one at least the cooldown window old.
NoBlockingEntry(p) ==
    \/ p \notin DOMAIN playerCooldowns
    \/ now - playerCooldowns[p] >= duplicateCooldownMs

\* C11: once a complete call or a sweep has taken a command out of a store
\* that held maxQueueSize commands, the next submit, if it is for a player
\* with no blocking cooldown entry, is accepted.
C11_SubmitAfterRemovalAccepted ==
    [][\A req \in Requests :
          (/\ SubmitStep(req.type, req.player, req.timestamp)
           /\ freed
           /\ NoBlockingEntry(req.player))
          => res'.result.success]_vars

\* C11 witness: a submit that followed such a removal was accepted and
\* filled the store again.
C11_Witness ==
    /\ res.op = "submit"
    /\ res.freed
    /\ res.result.success
    /\ Len(commands) = maxQueueSize

\* C12: a submit that fails, with DUPLICATE_COMMAND or with QUEUE_FULL,
\* leaves the pending commands and every cooldown entry, the rejected
\* player's timestamp included, as they were.
C12_FailedSubmitNoSideEffect ==
    [][\A req \in Requests :
          (/\ SubmitStep(req.type, req.player, req.timestamp)
           /\ ~res'.result.success)
          => (/\ res'.result.error \in {"DUPLICATE_COMMAND", "QUEUE_FULL"}
              /\ commands' = commands
              /\ playerCooldowns' = playerCooldowns)]_vars

\* C12 witness: a submit was refused as a duplicate after the clock had
\* advanced, and the player's cooldown entry still holds the earlier time.
C12_Witness ==
    /\ res.op = "submit"
    /\ ~res.result.success
    /\ res.result.error = "DUPLICATE_COMMAND"
    /\ res.player \in DOMAIN playerCooldowns
    /\ playerCooldowns[res.player] < now

\* C13: a complete call with success=true for a pending command of player P
\* leaves no cooldown entry for P, and a submit for P that comes right after
\* it is accepted: neither DUPLICATE_COMMAND nor QUEUE_FULL.
C13_SuccessCompletionUnblocks ==
    [][/\ \A id \in IdsOf(commands) :
            CompleteStep(id, TRUE)
                => CommandsGet(commands, id).player
                       \notin DOMAIN playerCooldowns'
       /\ \A req \in Requests :
            (/\ SubmitStep(req.type, req.player, req.timestamp)
             /\ Follows(req.player) = "success")
            => res'.result.success]_vars

\* C13 witness: right after a success=true completion of a command of P,
\* a submit for P was accepted within the cooldown window of P's previous
\* accepted command (the clock has not moved past it), into the place the
\* removal freed in a full store.
C13_Witness ==
    /\ res.op = "submit"
    /\ res.follows = "success"
    /\ res.freed
    /\ res.result.success
    /\ now < 1 + duplicateCooldownMs

\* C14: a complete call with success=false for a pending command of player
\* P leaves the cooldown table as it was, and a submit for P that comes
\* right after it, less than the cooldown window after P's last accepted
\* command, fails with DUPLICATE_COMMAND.
C14_FailedCompletionKeepsBlocking ==
    [][/\ \A id \in IdsOf(commands) :
            CompleteStep(id, FALSE) => playerCooldowns' = playerCooldowns
       /\ \A req \in Requests :
            (/\ SubmitStep(req.type, req.player, req.timestamp)
             /\ Follows(req.player) = "failure"
             /\ now - lastAccepted[req.player].at < duplicateCooldownMs)
            => (/\ ~res'.result.success
                /\ res'.result.error = "DUPLICATE_COMMAND")]_vars

\* C15: a submit for player P that comes right after a complete call with
\* success=false for a command of P is accepted, whatever the time since
\* P's last accepted command.
C15_FailedCompletionAllowsRetry ==
    [][\A req \in Requests :
          (/\ SubmitStep(req.type, req.player, req.timestamp)
           /\ Follows(req.player) = "failure")
          => res'.result.success]_vars

\* C16: a sweep that removes an expired command of player P (now past its
\* expiresAt) leaves no cooldown entry for P, whatever completions were
\* reported; P stays without an entry until the next submit for P, and that
\* submit is not refused with DUPLICATE_COMMAND.
C16_ExpiryUnblocks ==
    [][/\ SweepStep =>
            \A i \in DOMAIN commands :
                now > commands[i].expiresAt
                    => (/\ commands[i].id \notin IdsOf(commands')
                        /\ commands[i].player \notin DOMAIN playerCooldowns')
       /\ \A req \in Requests :
            /\ (/\ req.player \notin DOMAIN playerCooldowns
                 /\ ~SubmitStep(req.type, req.player, req.timestamp))
                => req.player \notin DOMAIN playerCooldowns'
            /\ (/\ SubmitStep(req.type, req.player, req.timestamp)
                 /\ (\/ req.player \notin DOMAIN playerCooldowns
                      \/ Follows(req.player) = "expiry"))
                => (\/ res'.result.success
                    \/ res'.result.error # "DUPLICATE_COMMAND")]_vars

\* C16 witness: right after a sweep removed an expired command of P, a
\* submit for P was accepted.
C16_Witness ==
    /\ res.op = "submit"
    /\ res.follows = "expiry"
    /\ res.result.success

\* C17: status first runs the expiration sweep (the commands with now past
\* their expiresAt leave the store) and then reports queueSize = the number
\* of pending commands, maxQueueSize, cooldownCount = the number of cooldown
\* entries, and oldestCommandAge = the clock, as read when the age is
\* computed, minus the createdAt of the earliest pending command, or 0 when
\* the store is empty.
C17_StatusReport ==
    [][StatusStep =>
          /\ commands' = SelectSeq(commands, LAMBDA c : ~(now > c.expiresAt))
          /\ res'.result.queueSize = Len(commands')
          /\ res'.result.maxQueueSize = maxQueueSize
          /\ res'.result.cooldownCount = Cardinality(DOMAIN playerCooldowns')
          /\ res'.result.oldestCommandAge =
                IF commands' = <<>>
                THEN 0
                ELSE LET created == {commands'[i].createdAt :
                                        i \in DOMAIN commands'}
                     IN  now' - (CHOOSE m \in created :
                                    \A x \in created : m <= x)]_vars

\* C17 witness: a status call swept an expired command and reported a
\* later one, with its age and its player's cooldown entry.
C17_Witness ==
    /\ res.op = "status"
    /\ res.swept # {}
    /\ res.result.queueSize >= 1
    /\ res.result.cooldownCount >= 1
    /\ res.result.oldestCommandAge > 0

\* The bag of two submit requests r.
Two(r) == SetToBag({r}) (+) SetToBag({r})

\* The responses, among the answers, that report success.
Successes == [a \in {x \in BagToSet(answers) : x.success} |-> answers[a]]

DistinctPlayers(b) ==
    \A r, q \in BagToSet(b) : b[r] = 1 /\ (r.player = q.player => r = q)

\* C19 (under SpecConc): when k <= maxQueueSize submits for k distinct
\* players are in the server together on an empty queue (no pending
\* command, no cooldown entry), all k are answered 200 with success, their
\* queue positions are the k values 1..k, the poll + complete(success=true)
\* cycles that follow return accepted ids, each at most once, and when a
\* poll finds the queue empty they have returned every accepted id in
\* exactly k cycles.
C19_ConcurrentSubmitsAllAccepted ==
    (/\ phase \in {"drain", "drained"}
     /\ DistinctPlayers(batch)
     /\ BagCardinality(batch) <= maxQueueSize
     /\ before.size = 0
     /\ before.cooldowns = {})
    => LET k == BagCardinality(batch)
           ids == {a.commandId : a \in BagToSet(answers)}
       IN  /\ \A a \in BagToSet(answers) :
                a.status = 200 /\ a.success /\ answers[a] = 1
           /\ Cardinality(BagToSet(answers)) = k
           /\ {a.queuePosition : a \in BagToSet(answers)} = 1..k
           /\ Cardinality(ids) = k
           /\ \A i, j \in DOMAIN drained :
                drained[i] \in ids /\ (drained[i] = drained[j] => i = j)
           /\ phase = "drained"
                => (/\ Len(drained) = k
                    /\ {drained[i] : i \in DOMAIN drained} = ids
                    /\ ~res.result.hasCommand)

\* C19 witness: two submits for two players arrived together on an empty
\* queue, and two cycles later a poll found the queue empty.
C19_Witness ==
    /\ phase = "drained"
    /\ DistinctPlayers(batch)
    /\ BagCardinality(batch) = 2
    /\ before.size = 0
    /\ before.cooldowns = {}
    /\ Len(drained) = 2

\* C20 (under SpecConc): when Copies completion requests for every pending
\* id are in the server together, every one is answered 200 with success,
\* for each id exactly one answer reports removed=true and the others
\* removed=false, and afterwards poll returns no command and status
\* reports queueSize 0.
C20_ConcurrentCompletions ==
    (phase \in {"after", "polled", "done"})
    => (/\ \A a \in BagToSet(answers) : a.status = 200 /\ a.success
        /\ \A r \in BagToSet(batch) :
              /\ CopiesIn([status |-> 200, success |-> TRUE, removed |-> TRUE,
                           commandId |-> r.commandId], answers) = 1
              /\ CopiesIn([status |-> 200, success |-> TRUE, removed |-> FALSE,
                           commandId |-> r.commandId], answers) = Copies - 1
        /\ phase = "polled" => ~res.result.hasCommand
        /\ phase = "done" => res.result.queueSize = 0)

\* C20 witness: the completions of two pending ids were all answered, and
\* the poll and the status call that followed found the queue empty.
C20_Witness ==
    /\ phase = "done"
    /\ before.size = 2
    /\ BagCardinality(answers) = 2 * Copies
    /\ res.op = "status"

\* C22: after an accepted submit, the queuePosition it returned is the
\* number of commands in the store, at least 1, and the command stored at
\* that position (the last in arrival order) is the one just accepted; on a
\* store that was empty the position is 1.
C22_QueuePositionIsStoreSize ==
    (res.op = "submit" /\ res.result.success) =>
        /\ res.result.queuePosition = Len(commands)
        /\ res.result.queuePosition >= 1
        /\ commands[res.result.queuePosition].id = res.result.commandId
        /\ \A i \in DOMAIN commands :
              i < res.result.queuePosition =>
                  commands[i].createdAt
                      <= commands[res.result.queuePosition].createdAt

\* An accepted submit that joined a command already pending: position 2.
C22_Witness ==
    /\ res.op = "submit"
    /\ res.result.success
    /\ res.result.queuePosition = 2
    /\ Len(commands) = 2

\* C29: a submit for a player with a blocking cooldown entry, made while the
\* store holds maxQueueSize commands, answers DUPLICATE_COMMAND, not
\* QUEUE_FULL.
C29_DuplicateBeforeCapacity ==
    [][\A req \in Requests :
          (/\ SubmitStep(req.type, req.player, req.timestamp)
           /\ ~NoBlockingEntry(req.player)
           /\ Len(commands) >= maxQueueSize)
          => (~res'.result.success
              /\ res'.result.error = "DUPLICATE_COMMAND")]_vars

\* A duplicate was rejected on a full store.
C29_Witness ==
    /\ res.op = "submit"
    /\ ~res.result.success
    /\ res.result.error = "DUPLICATE_COMMAND"
    /\ Len(commands) = maxQueueSize

\* The place of the command with this id in cmds.
IndexOf(cmds, id) == CHOOSE i \in DOMAIN cmds : cmds[i].id = id

\* The commands in store order have non-decreasing createdAt.
OrderedByCreatedAt(cmds) ==
    \A i, j \in DOMAIN cmds :
        i < j => cmds[i].createdAt <= cmds[j].createdAt

\* The commands of cmds that are still in after are there in the same order.
KeepsOrder(cmds, after) ==
    \A i, j \in DOMAIN after :
        (i < j /\ after[i].id \in IdsOf(cmds) /\ after[j].id \in IdsOf(cmds))
        => IndexOf(cmds, after[i].id) < IndexOf(cmds, after[j].id)

\* C30: after every step the commands in store order have non-decreasing
\* createdAt, and the commands the step leaves in the store keep the order
\* they had.
C30_StoreOrderedByCreatedAt ==
    [][OrderedByCreatedAt(commands') /\ KeepsOrder(commands, commands')]_vars

\* Two pending commands created at different times, after a poll that left
\* both in the store.
C30_Witness ==
    /\ res.op = "poll"
    /\ Len(commands) = 2
    /\ commands[1].createdAt < commands[2].createdAt

\* The commands of cmds whose expiration time has not passed at time t.
Unexpired(cmds, t) == SelectSeq(cmds, LAMBDA c : t <= c.expiresAt)

\* The commands of cmds with t < expiresAt.
StrictlyUnexpired(cmds, t) == SelectSeq(cmds, LAMBDA c : t < c.expiresAt)

\* A step of complete that removed the command it named.
RemovalStep ==
    /\ res'.op = "complete"
    /\ res'.commandId \in IdsOf(commands)
    /\ res'.commandId \notin IdsOf(commands')

Malformed(body) ==
    \/ body.type.t = "undefined"
    \/ body.player.t = "undefined"
    \/ body.timestamp.t = "undefined"
    \/ body.type \notin {Str(<<Word("kick")>>), Str(<<Word("ban")>>)}
    \/ body.player = Str(<<>>)
    \/ body.timestamp.t # "number"
    \/ body.timestamp.n <= 0

\* C23: a POST to /api/command that passed the gate is answered 400 when its
\* body is malformed, 409 when the engine reports DUPLICATE_COMMAND, 503
\* when it reports QUEUE_FULL, and 200 with the engine's id and queue
\* position when the command was accepted.
C23_SubmitStatusCodes ==
    (http.route = "command" /\ http.gate.next
        /\ http.request.method = "POST") =>
        /\ Malformed(http.request.body) =>
              (http.response.status = 400 /\ ~http.called)
        /\ http.called =>
              /\ res.op = "submit"
              /\ res.result.success =>
                    http.response =
                        [status |-> 200, success |-> TRUE,
                         commandId |-> res.result.commandId,
                         queuePosition |-> res.result.queuePosition]
              /\ (~res.result.success
                    /\ res.result.error = "DUPLICATE_COMMAND") =>
                    (http.response.status = 409
                        /\ http.response.error = "DUPLICATE_COMMAND")
              /\ (~res.result.success /\ res.result.error = "QUEUE_FULL") =>
                    (http.response.status = 503
                        /\ http.response.error = "QUEUE_FULL")

\* A submit was answered 503: the store was full and the player not blocked.
C23_Witness ==
    /\ http.route = "command"
    /\ http.called
    /\ http.response.status = 503
    /\ Len(commands) = maxQueueSize

\* C24: a request to /api/command answered 400 did not call the engine: the
\* store and the cooldown table are what they were, and on a store that was
\* empty a poll would still find no command.
C24_RejectedSubmitLeavesEngine ==
    [][(http.route = "none" /\ http'.route = "command"
          /\ http'.response.status = 400) =>
          /\ ~http'.called
          /\ commands' = commands
          /\ playerCooldowns' = playerCooldowns
          /\ nextId' = nextId
          /\ commands = <<>> =>
                ~pollCommand(commands', playerCooldowns', now').result.hasCommand
      ]_vars

\* A malformed submit was answered 400 while the store was empty.
C24_Witness ==
    /\ http.route = "command"
    /\ http.gate.next
    /\ http.response.status = 400
    /\ Malformed(http.request.body)
    /\ commands = <<>>

\* C25: a middleware with a key configured and required=true calls next()
\* exactly when the X-API-Key header equals the key; without a header (none,
\* or an empty one) it answers 401 MISSING_API_KEY, with another key 401
\* INVALID_API_KEY, and does not call next().
C25_RequiredKeyGate ==
    (http.route = "middleware" /\ http.config.required
        /\ ~Falsy(http.config.apiKey)) =>
        /\ http.gate.next <=> (http.header = http.config.apiKey)
        /\ Falsy(http.header) => http.gate = Reject(401, "MISSING_API_KEY")
        /\ (~Falsy(http.header) /\ http.header # http.config.apiKey) =>
              http.gate = Reject(401, "INVALID_API_KEY")

\* A required key was configured and another key was sent.
C25_Witness ==
    /\ http.route = "middleware"
    /\ http.config.required
    /\ http.config.apiKey = Str(<<Word("k1")>>)
    /\ http.header = Str(<<Word("k2")>>)
    /\ ~http.gate.next

\* C26: a middleware with required=false calls next() and answers nothing,
\* whatever key is configured and whatever the header.
C26_DevModeAcceptsAll ==
    (http.route = "middleware" /\ ~http.config.required) => http.gate.next

\* What the gate of the handlers decides, from the key of the environment
\* and the header alone.
Admits(key, header) == Falsy(key) \/ header = key

\* C27: in the handlers of /api/command, /api/poll and /api/complete the
\* gate lets a request through exactly when no key is set or the header is
\* the key, whatever the engine holds; a request it turns away is answered
\* 401, calls nothing in the engine and leaves the engine as it was.
C27_GateBeforeEngine ==
    [][(http.route = "none"
          /\ http'.route \in {"command", "poll", "complete"}) =>
          /\ http'.gate.next <=> Admits(API_KEY, http'.request.header)
          /\ ~http'.gate.next =>
                /\ ~http'.called
                /\ http'.response.status = 401
                /\ UNCHANGED engineVars]_vars

\* A complete request for a pending command, with a wrong key, was turned
\* away.
C27_Witness ==
    /\ http.route = "complete"
    /\ ~http.gate.next
    /\ http.request.header = Str(<<Word("k2")>>)
    /\ IdOf(http.request.body.commandId.s) \in IdsOf(commands)

\* C36: every cooldown entry holds the createdAt of the last command
\* accepted for its player.
C36_CooldownIsLastAcceptedCreatedAt ==
    \A p \in DOMAIN playerCooldowns :
        /\ lastAccepted[p] # NoCommand
        /\ playerCooldowns[p] = lastAccepted[p].at

\* A cooldown entry that outlived its command: the player has an entry and
\* no pending command.
C36_Witness ==
    \E p \in DOMAIN playerCooldowns :
        /\ p \notin PlayersOf(commands)
        /\ playerCooldowns[p] = lastAccepted[p].at
        /\ now > playerCooldowns[p]

\* C37: an accepted submit made while a command is pending whose expiresAt
\* has not passed leaves poll returning the first such command: the one it
\* would have returned before the submit.
C37_SubmitDoesNotPreemptHead ==
    [][\A req \in Requests :
          (/\ SubmitStep(req.type, req.player, req.timestamp)
           /\ res'.result.success
           /\ Unexpired(commands, now) # <<>>)
          => pollCommand(commands', playerCooldowns', now').result
                = PollSnapshot(Head(Unexpired(commands, now)))]_vars

\* A second command was accepted behind a pending one of another time.
C37_Witness ==
    /\ res.op = "submit"
    /\ res.result.success
    /\ res.result.queuePosition = 2
    /\ commands[1].createdAt < commands[2].createdAt
    /\ now <= commands[1].expiresAt

\* C39 as stated: the oldestCommandAge a status call reports is between 0
\* and the expiration window.
C39_OldestAgeWithinWindow ==
    res.op = "status" =>
        /\ res.result.oldestCommandAge >= 0
        /\ res.result.oldestCommandAge <= commandExpirationMs

\* C39, amended: the oldestCommandAge a status call reports is between 0 and
\* the expiration window plus the time that passed between the two clock
\* readings of the call, the sweep's and getOldestCommandAge's.
C39_OldestAgeWithinWindowAtSweep ==
    [][StatusStep =>
          /\ res'.result.oldestCommandAge >= 0
          /\ res'.result.oldestCommandAge
                <= commandExpirationMs + (now' - now)]_vars

\* A status call reported the oldest age the window allows.
C39_Witness ==
    /\ res.op = "status"
    /\ res.result.queueSize > 0
    /\ res.result.oldestCommandAge = commandExpirationMs

\* C40: right after a sweep run by poll, status or the timer, every cooldown
\* entry left is at most the cooldown window old at the clock value the
\* sweep read, or belongs to a player with a command in the store.
C40_NoStaleCooldownAfterSweep ==
    [][SweepStep =>
          \A p \in DOMAIN playerCooldowns' :
              \/ now - playerCooldowns'[p] <= duplicateCooldownMs
              \/ p \in PlayersOf(commands')]_vars

\* A poll left an entry older than the cooldown window, its player having a
\* command in the store.
C40_Witness ==
    /\ res.op = "poll"
    /\ \E p \in DOMAIN playerCooldowns :
          /\ now - playerCooldowns[p] > duplicateCooldownMs
          /\ p \in PlayersOf(commands)

\* C33: a command that stays in the store over a step is the same record
\* after it (id, type, player, timestamp, createdAt, expiresAt, attempts),
\* every stored command has attempts 0, and the command a poll returns
\* carries attempts 0 and the id, type, player and timestamp stored.
C33_PendingCommandImmutable ==
    [][/\ \A i \in DOMAIN commands' :
              /\ commands'[i].attempts = 0
              /\ commands'[i].id \in IdsOf(commands) =>
                    commands'[i] = CommandsGet(commands, commands'[i].id)
       /\ (res'.op = "poll" /\ res'.result.hasCommand) =>
              /\ res'.result.command.attempts = 0
              /\ res'.result = PollSnapshot(
                     CommandsGet(commands', res'.result.command.id))]_vars

\* A poll returned a command accepted at an earlier time, another command
\* waiting behind it.
C33_Witness ==
    /\ res.op = "poll"
    /\ res.result.hasCommand
    /\ res.result.command.attempts = 0
    /\ Len(commands) = 2
    /\ now > commands[1].createdAt

\* C34: over every step, a command leaves the store only by a complete call
\* for its id, by a sweep at a clock value after its expiresAt, or by clear;
\* a command enters only by an accepted submit, under an id never handed out
\* before; no id is in the store twice.  (The pending count therefore is the
\* number of accepted commands minus the number of removed ones, and a
\* removed command does not come back.)
C34_CommandsConserved ==
    [][/\ Cardinality(IdsOf(commands')) = Len(commands')
       /\ \A id \in IdsOf(commands') : id < nextId'
       /\ \A id \in IdsOf(commands) \ IdsOf(commands') :
              \/ res'.op = "complete" /\ res'.commandId = id
              \/ /\ res'.op \in {"poll", "status", "sweep"}
                 /\ now > CommandsGet(commands, id).expiresAt
              \/ res'.op = "clear"
       /\ \A id \in IdsOf(commands') \ IdsOf(commands) :
              /\ id = nextId
              /\ nextId' = nextId + 1
              /\ res'.op = "submit"
              /\ res'.result.success
              /\ res'.result.commandId = id
              /\ Len(commands') = Len(commands) + 1]_vars

\* A complete call removed one of two pending commands after an earlier
\* command had already left the store.
C34_Witness ==
    /\ res.op = "complete"
    /\ res.result.removed
    /\ Len(commands) = 1
    /\ nextId = 4

\* C35 as stated: a submit is answered QUEUE_FULL only when at least
\* maxQueueSize commands whose expiresAt has not passed are pending.
C35_FullOnlyOfUnexpired ==
    [][\A req \in Requests :
          (/\ SubmitStep(req.type, req.player, req.timestamp)
           /\ ~res'.result.success
           /\ res'.result.error = "QUEUE_FULL")
          => Len(Unexpired(commands, now)) >= maxQueueSize]_vars

\* C35, amended: a submit is answered QUEUE_FULL only when at least
\* maxQueueSize commands are in the store, those whose expiresAt has passed
\* and that no sweep has removed yet included.
C35_FullOnlyOfStored ==
    (res.op = "submit" /\ ~res.result.success
        /\ res.result.error = "QUEUE_FULL") =>
        Len(commands) >= maxQueueSize

\* A submit was answered QUEUE_FULL, the store holding a command past its
\* expiresAt.
C35_Witness ==
    /\ res.op = "submit"
    /\ ~res.result.success
    /\ res.result.error = "QUEUE_FULL"
    /\ \E i \in DOMAIN commands : now > commands[i].expiresAt

\* C38: for every key configured, every value of required and every header,
\* the middleware either calls next() and answers nothing, or answers once,
\* with 401 or 500, and does not call next(); with required=true and no key
\* configured the answer is 500 SERVER_MISCONFIGURED, whatever the header.
C38_ExactlyOneOutcome ==
    http.route = "middleware" =>
        /\ \/ http.gate.next /\ http.gate.status = 0 /\ http.gate.error = ""
           \/ /\ ~http.gate.next
              /\ http.gate.status \in {401, 500}
              /\ http.gate.error \in {"SERVER_MISCONFIGURED",
                                       "MISSING_API_KEY", "INVALID_API_KEY"}
        /\ (http.config.required /\ Falsy(http.config.apiKey)) =>
              http.gate = Reject(500, "SERVER_MISCONFIGURED")

\* A key was required, none was configured, and the request carried a key.
C38_Witness ==
    /\ http.route = "middleware"
    /\ http.config.required
    /\ http.config.apiKey = Undefined
    /\ http.header = Str(<<Word("k1")>>)
    /\ http.gate.status = 500

\* C31 as stated: every submit, poll, complete and status call returns what
\* it would return had no stale cooldown entry ever been collected.
C31_GCUnobservable ==
    res.op \in {"submit", "poll", "complete", "status"} =>
        res.result = shadow.result

\* C31, amended: every submit, poll and complete call returns what it would
\* return had no stale cooldown entry ever been collected, and so does
\* status in queueSize, maxQueueSize and oldestCommandAge; the two stores
\* hold the same commands, and the entries collected are those the other
\* engine holds in addition, all of them stale and of players without a
\* pending command.
C31_GCObservableInCooldownCountOnly ==
    /\ res.op \in {"submit", "poll", "complete"} => res.result = shadow.result
    /\ res.op = "status" =>
          /\ res.result.queueSize = shadow.result.queueSize
          /\ res.result.maxQueueSize = shadow.result.maxQueueSize
          /\ res.result.oldestCommandAge = shadow.result.oldestCommandAge
          /\ res.result.cooldownCount <= shadow.result.cooldownCount
    /\ commands = shadow.commands
    /\ DOMAIN playerCooldowns \subseteq DOMAIN shadow.playerCooldowns
    /\ \A p \in DOMAIN shadow.playerCooldowns :
          IF p \in DOMAIN playerCooldowns
          THEN playerCooldowns[p] = shadow.playerCooldowns[p]
          ELSE /\ now - shadow.playerCooldowns[p] > duplicateCooldownMs
               /\ p \notin PlayersOf(commands)

\* A poll returned a command after a stale entry had been collected in one
\* engine and kept in the other.
C31_Witness ==
    /\ res.op = "poll"
    /\ res.result.hasCommand
    /\ DOMAIN shadow.playerCooldowns # DOMAIN playerCooldowns

\* C32: with the clock advancing and the timer sweep running, and no poll
\* or status call at all, every command in the store past its expiresAt is
\* eventually out of the store, and every command in the store is
\* eventually out of it.
C32_EveryCommandLeaves ==
    \A id \in 1..MaxIds :
        /\ (id \in IdsOf(commands) /\ now > CommandsGet(commands, id).expiresAt)
              ~> (id \notin IdsOf(commands))
        /\ (id \in IdsOf(commands)) ~> (id \notin IdsOf(commands))

\* The timer sweep removed a command past its expiresAt, no poll or status
\* call having been made.
C32_Witness ==
    /\ res.op = "sweep"
    /\ res.swept # {}
    /\ commands = <<>>
    /\ now > MaxLiveTime

====
